---- MODULE Spec2Model ----
(***************************************************************************)
(* Use-case matcher of ai-tracker (src/app/lib/usecase-matcher.ts) and the *)
(* smart-search route it calls (src/app/api/smart-search/route.ts).        *)
(*                                                                         *)
(* Numbers: a strength is an integer of 0..100, a weight is 1.0 or 0.5.    *)
(* Weights are kept doubled (2 and 1), so useCaseScore / totalWeight is    *)
(* the quotient of two integers; times 60 it is an integer again as long   *)
(* as at most three tags match (the doubled weight sum is then 1..6, and   *)
(* each of 1..6 divides 60).  Scores are therefore exact integers here;    *)
(* the IEEE rounding of the JavaScript division is not modelled.           *)
(* JavaScript undefined and null are both the value Undefined.             *)
(***************************************************************************)
EXTENDS Integers, Sequences, FiniteSets, TLC

VARIABLES
    sReq,           \* scorer harness: the UserRequirements handed to the scorer
    sEnr,           \* scorer harness: the ToolEnrichment handed to the scorer
    sOut,           \* scorer harness: the returned {score, matchedUseCases, confidence}
    aText,          \* adapter harness: the JSON text the interpreter wrote
    aFence,         \* adapter harness: the markdown fence the interpreter put around it
    aResponse,      \* adapter harness: the response of POST /api/smart-search
    catalogDoc,     \* the document served at /ai_tracker_enhanced.json
    enrichmentsDoc, \* the document served at /use_cases_enrichment.json
    pc,             \* per call: where the call stands
    entry,          \* per call: the exported function that was called
    query,          \* per call: the query text
    callReq,        \* per call: the UserRequirements handed to matchToolsToUserNeeds
    aiAnswer,       \* per call: what the fetch of /api/smart-search produced
    toolsLoaded,    \* per call: the local variable tools
    ret,            \* per call: what the call returned, or that it rejected
    localRan,       \* per call: the catch block called matchToolsToQuery
    dataFailed,     \* per call: a catalog or enrichment fetch of the call failed
    inflight        \* network requests issued and not yet settled

scorerVars == <<sReq, sEnr, sOut>>
adapterVars == <<aText, aFence, aResponse>>
harnessVars == <<sReq, sEnr, sOut, aText, aFence, aResponse>>
callVars == <<catalogDoc, enrichmentsDoc, pc, entry, query, callReq, aiAnswer, toolsLoaded, ret,
              localRan, dataFailed, inflight>>
vars == <<sReq, sEnr, sOut, aText, aFence, aResponse, catalogDoc, enrichmentsDoc, pc, entry, query, callReq,
          aiAnswer, toolsLoaded, ret, localRan, dataFailed, inflight>>

Undefined == "undefined"

--------------------------------------------------------------------------
(* Small arithmetic helpers (Math.min, Math.max, Math.abs). *)

MathMin(a, b) == IF a < b THEN a ELSE b
MathMax(a, b) == IF a > b THEN a ELSE b
MathAbs(a) == IF a < 0 THEN 0 - a ELSE a

--------------------------------------------------------------------------
(* Data drawn for the checks. *)

\* Intent tags: two that tools declare, one that no tool declares.
TagA == "website-creation"
TagB == "ui-design"
TagC == "logo-design"
Tags == {TagA, TagB, TagC}
ToolTags == {TagA, TagB}

\* Longest use_cases array of a requirement.
MaxUseCases == 2

\* Strengths of the 0..100 scale that the checks draw.
Strengths == {0, 95, 100}

CodingLevels == {"no-code", "low-code", "developer", "expert"}

\* Arrays of distinct tags, up to MaxUseCases long (parseUserInput returns
\* Array.from(a Set), the interpreter a list of taxonomy ids).
RECURSIVE TagArrays(_)
TagArrays(n) ==
    IF n = 0 THEN {<< >>}
    ELSE LET shorter == TagArrays(n - 1)
         IN shorter \cup
            {Append(s, t) : s \in {x \in shorter : Len(x) = n - 1},
                            t \in Tags}

SeqRange(s) == {s[i] : i \in 1..Len(s)}

\* every order of the elements of s
Reorderings(s) ==
    {[i \in 1..Len(s) |-> s[f[i]]] :
        f \in {g \in [1..Len(s) -> 1..Len(s)] : \A i, j \in 1..Len(s) : g[i] = g[j] => i = j}}

DistinctTagArrays == {s \in TagArrays(MaxUseCases) : Cardinality(SeqRange(s)) = Len(s)}

--------------------------------------------------------------------------
(* UserRequirements.use_cases: an array on the local path; on the AI path  *)
(* matchToolsToQuerySmart stores an object built by reduce (lines 505-508).*)
(* isArray tells the two apart; items are the elements, or the keys.       *)

ArrayUseCases(items) == [isArray |-> TRUE, items |-> items]
ObjectUseCases(items) == [isArray |-> FALSE, items |-> items]

\* userReqs.use_cases.length > 0: length is undefined for the object, and
\* undefined > 0 is false
LengthPositive(use_cases) == use_cases.isArray /\ Len(use_cases.items) > 0

\* for (const reqUseCase of userReqs.use_cases): only reached for an array
IterationOf(use_cases) == IF use_cases.isArray THEN use_cases.items ELSE << >>

\* UserRequirements, lines 56-63 (text_input is read by nothing and left out)
Requirement(use_cases, coding_level, budget, experience_level) ==
    [use_cases |-> use_cases,
     coding_level |-> coding_level,
     budget |-> budget,
     experience_level |-> experience_level]

--------------------------------------------------------------------------
(* calculateCompatibilityScore, lines 209-293 *)

maxScore == 100

\* weight = type === 'primary' ? 1.0 : 0.5, doubled
Weight2(type) == IF type = "primary" THEN 2 ELSE 1

\* The loop of lines 223-237 over the first n requested tags:
\* doubled useCaseScore, doubled totalWeight, and matchedUseCases.
RECURSIVE UseCaseLoop(_, _, _)
\* reqUseCase.replace(/-/g, ' '), line 231, on the tags a tool can be matched on
ReplaceHyphens(id) ==
    CASE id = "website-creation" -> "website creation"
      [] id = "ui-design" -> "ui design"
      [] id = "logo-design" -> "logo design"

\* a loop that takes a tag absent from the map as a secondary use case of
\* strength 0
RECURSIVE UseCaseLoopDefaulting(_, _, _)
UseCaseLoopDefaulting(items, ucc, n) ==
    IF n = 0 THEN [useCaseScore2 |-> 0, totalWeight2 |-> 0, matchedUseCases |-> << >>]
    ELSE LET acc == UseCaseLoopDefaulting(items, ucc, n - 1)
             reqUseCase == items[n]
             compatibility == IF reqUseCase \in DOMAIN ucc THEN ucc[reqUseCase]
                              ELSE [strength |-> 0, type |-> "secondary"]
         IN [useCaseScore2 |-> acc.useCaseScore2
                                  + compatibility.strength * Weight2(compatibility.type),
             totalWeight2 |-> acc.totalWeight2 + Weight2(compatibility.type),
             matchedUseCases |-> Append(acc.matchedUseCases,
                                        [id |-> reqUseCase,
                                         name |-> reqUseCase,
                                         strength |-> compatibility.strength,
                                         type |-> compatibility.type])]

UseCaseLoop(items, ucc, n) ==
    IF n = 0 THEN [useCaseScore2 |-> 0, totalWeight2 |-> 0, matchedUseCases |-> << >>]
    ELSE LET acc == UseCaseLoop(items, ucc, n - 1)
             reqUseCase == items[n]
         IN IF reqUseCase \in DOMAIN ucc
            THEN [useCaseScore2 |-> acc.useCaseScore2
                                      + ucc[reqUseCase].strength * Weight2(ucc[reqUseCase].type),
                  totalWeight2 |-> acc.totalWeight2 + Weight2(ucc[reqUseCase].type),
                  matchedUseCases |-> Append(acc.matchedUseCases,
                                             [id |-> reqUseCase,
                                              name |-> ReplaceHyphens(reqUseCase),
                                              strength |-> ucc[reqUseCase].strength,
                                              type |-> ucc[reqUseCase].type])]
            ELSE acc

UseCaseMatching(userReqs, enrichment) ==
    IF LengthPositive(userReqs.use_cases)
    THEN UseCaseLoop(IterationOf(userReqs.use_cases), enrichment.use_case_compatibility,
                     Len(IterationOf(userReqs.use_cases)))
    ELSE [useCaseScore2 |-> 0, totalWeight2 |-> 0, matchedUseCases |-> << >>]

\* a component that is pro-rated to the full 60 when nothing matched
UseCaseComponentProRated(userReqs, enrichment) ==
    LET m == UseCaseMatching(userReqs, enrichment)
    IN IF m.totalWeight2 > 0
       THEN (m.useCaseScore2 * 60) \div m.totalWeight2
       ELSE 60

\* the quotient taken the wrong way round: (totalWeight / useCaseScore) * 60,
\* in hundredths
UseCaseComponentInverted(userReqs, enrichment) ==
    LET m == UseCaseMatching(userReqs, enrichment)
    IN IF m.useCaseScore2 > 0
       THEN (m.totalWeight2 * 6000) \div m.useCaseScore2
       ELSE 0

\* 1. Use case matching, lines 239-241: score += (useCaseScore / totalWeight) * 60
UseCaseComponent(userReqs, enrichment) ==
    LET m == UseCaseMatching(userReqs, enrichment)
    IN IF m.totalWeight2 > 0
       THEN (m.useCaseScore2 * 60) \div m.totalWeight2
       ELSE 0

\* levels.indexOf(x): -1 when x is not a level
LevelIndex(level) ==
    CASE level = "no-code" -> 0
      [] level = "low-code" -> 1
      [] level = "developer" -> 2
      [] level = "expert" -> 3
      [] OTHER -> -1

\* the distance penalty without its floor at 0
CodingComponentUnfloored(userReqs, enrichment) ==
    IF userReqs.coding_level # Undefined
    THEN 20 - MathAbs(LevelIndex(userReqs.coding_level)
                      - LevelIndex(enrichment.technical_profile.coding_level)) * 7
    ELSE 20

\* 2. Technical level match, lines 245-259
CodingComponent(userReqs, enrichment) ==
    IF userReqs.coding_level # Undefined
    THEN IF userReqs.coding_level = enrichment.technical_profile.coding_level
         THEN 20
         ELSE MathMax(0, 20 - MathAbs(LevelIndex(userReqs.coding_level)
                                       - LevelIndex(enrichment.technical_profile.coding_level)) * 7)
    ELSE 20

\* a 'free' preference that is not checked against the free tier
BudgetComponentUnchecked(userReqs, enrichment) ==
    IF userReqs.budget # Undefined
    THEN IF userReqs.budget \in {"free", "paid", "any"} THEN 10 ELSE 0
    ELSE 10

\* 3. Budget match, lines 262-272
BudgetComponent(userReqs, enrichment) ==
    IF userReqs.budget # Undefined
    THEN IF userReqs.budget = "free" /\ enrichment.pricing_tier.has_free_tier THEN 10
         ELSE IF userReqs.budget = "paid" \/ userReqs.budget = "any" THEN 10
         ELSE 0
    ELSE 10

\* 4. Experience level match, lines 275-283
ExperienceComponent(userReqs, enrichment) ==
    IF userReqs.experience_level # Undefined
    THEN IF userReqs.experience_level \in enrichment.technical_profile.user_levels
         THEN 10
         ELSE 5
    ELSE 10

\* the local variable score at line 288, before Math.min
RawScore(userReqs, enrichment) ==
    UseCaseComponent(userReqs, enrichment) + CodingComponent(userReqs, enrichment)
        + BudgetComponent(userReqs, enrichment) + ExperienceComponent(userReqs, enrichment)

\* line 286
Confidence(userReqs, enrichment) ==
    MathMin(100, Len(UseCaseMatching(userReqs, enrichment).matchedUseCases) * 30
                 + (IF LengthPositive(userReqs.use_cases) THEN 40 ELSE 20))

\* a scorer that returns the raw sum
ScoreUnclamped(userReqs, tool, enrichment) ==
    [score |-> RawScore(userReqs, enrichment),
     matchedUseCases |-> UseCaseMatching(userReqs, enrichment).matchedUseCases,
     confidence |-> Confidence(userReqs, enrichment)]

calculateCompatibilityScore(userReqs, tool, enrichment) ==
    [score |-> MathMin(RawScore(userReqs, enrichment), maxScore),
     matchedUseCases |-> UseCaseMatching(userReqs, enrichment).matchedUseCases,
     confidence |-> Confidence(userReqs, enrichment)]

--------------------------------------------------------------------------
(* parseUserInput, lines 85-203.  A text is a sequence of characters. *)

KEYWORD_MAP == <<
    [keyword |-> <<"p", "r", "e", "s", "e", "n", "t", "a", "t", "i", "o", "n">>,
     useCases |-> <<"business-presentation-creation", "pitch-deck-creation">>],
    [keyword |-> <<"p", "o", "w", "e", "r", "p", "o", "i", "n", "t">>,
     useCases |-> <<"business-presentation-creation", "data-presentation">>],
    [keyword |-> <<"s", "l", "i", "d", "e", "s">>,
     useCases |-> <<"business-presentation-creation", "marketing-presentation">>],
    [keyword |-> <<"p", "i", "t", "c", "h", " ", "d", "e", "c", "k">>,
     useCases |-> <<"pitch-deck-creation">>],
    [keyword |-> <<"d", "e", "c", "k">>,
     useCases |-> <<"pitch-deck-creation", "business-presentation-creation">>],
    [keyword |-> <<"c", "o", "d", "e">>,
     useCases |-> <<"full-stack-web-development", "code-generation", "frontend-development">>],
    [keyword |-> <<"c", "o", "d", "i", "n", "g">>,
     useCases |-> <<"full-stack-web-development", "code-generation">>],
    [keyword |-> <<"d", "e", "v", "e", "l", "o", "p", "e", "r">>,
     useCases |-> <<"full-stack-web-development", "code-generation">>],
    [keyword |-> <<"p", "r", "o", "g", "r", "a", "m", "m", "i", "n", "g">>,
     useCases |-> <<"full-stack-web-development", "backend-development">>],
    [keyword |-> <<"a", "p", "p">>,
     useCases |-> <<"full-stack-web-development", "mobile-app-development">>],
    [keyword |-> <<"w", "e", "b", "s", "i", "t", "e">>,
     useCases |-> <<"full-stack-web-development", "frontend-development">>],
    [keyword |-> <<"w", "e", "b", " ", "a", "p", "p">>,
     useCases |-> <<"full-stack-web-development">>],
    [keyword |-> <<"f", "r", "o", "n", "t", "e", "n", "d">>,
     useCases |-> <<"frontend-development">>],
    [keyword |-> <<"b", "a", "c", "k", "e", "n", "d">>,
     useCases |-> <<"backend-development">>],
    [keyword |-> <<"f", "u", "l", "l", " ", "s", "t", "a", "c", "k">>,
     useCases |-> <<"full-stack-web-development">>],
    [keyword |-> <<"m", "o", "b", "i", "l", "e">>,
     useCases |-> <<"mobile-app-development">>],
    [keyword |-> <<"r", "e", "a", "c", "t">>,
     useCases |-> <<"frontend-development">>],
    [keyword |-> <<"v", "u", "e">>,
     useCases |-> <<"frontend-development">>],
    [keyword |-> <<"a", "n", "g", "u", "l", "a", "r">>,
     useCases |-> <<"frontend-development">>],
    [keyword |-> <<"a", "p", "i">>,
     useCases |-> <<"backend-development">>],
    [keyword |-> <<"d", "a", "t", "a", "b", "a", "s", "e">>,
     useCases |-> <<"database-design", "backend-development">>],
    [keyword |-> <<"s", "q", "l">>,
     useCases |-> <<"database-design", "sql-query-generation">>],
    [keyword |-> <<"d", "e", "b", "u", "g">>,
     useCases |-> <<"debugging">>],
    [keyword |-> <<"r", "e", "f", "a", "c", "t", "o", "r">>,
     useCases |-> <<"code-refactoring">>],
    [keyword |-> <<"t", "e", "s", "t">>,
     useCases |-> <<"test-writing">>],
    [keyword |-> <<"b", "l", "o", "g">>,
     useCases |-> <<"blog-post-writing", "seo-content-writing">>],
    [keyword |-> <<"a", "r", "t", "i", "c", "l", "e">>,
     useCases |-> <<"blog-post-writing", "long-form-writing">>],
    [keyword |-> <<"c", "o", "n", "t", "e", "n", "t">>,
     useCases |-> <<"marketing-copy", "blog-post-writing">>],
    [keyword |-> <<"m", "a", "r", "k", "e", "t", "i", "n", "g">>,
     useCases |-> <<"marketing-copy", "social-media-content">>],
    [keyword |-> <<"c", "o", "p", "y">>,
     useCases |-> <<"marketing-copy", "copywriting">>],
    [keyword |-> <<"e", "m", "a", "i", "l">>,
     useCases |-> <<"email-drafting", "marketing-copy">>],
    [keyword |-> <<"s", "o", "c", "i", "a", "l", " ", "m", "e", "d", "i", "a">>,
     useCases |-> <<"social-media-content">>],
    [keyword |-> <<"l", "i", "n", "k", "e", "d", "i", "n">>,
     useCases |-> <<"social-media-content">>],
    [keyword |-> <<"t", "w", "i", "t", "t", "e", "r">>,
     useCases |-> <<"social-media-content">>],
    [keyword |-> <<"s", "e", "o">>,
     useCases |-> <<"seo-content-writing">>],
    [keyword |-> <<"w", "r", "i", "t", "i", "n", "g">>,
     useCases |-> <<"long-form-writing", "blog-post-writing">>],
    [keyword |-> <<"r", "e", "s", "e", "a", "r", "c", "h">>,
     useCases |-> <<"academic-research", "web-research", "market-research">>],
    [keyword |-> <<"a", "n", "a", "l", "y", "z", "e">>,
     useCases |-> <<"multi-document-analysis", "data-analysis">>],
    [keyword |-> <<"a", "n", "a", "l", "y", "s", "i", "s">>,
     useCases |-> <<"multi-document-analysis", "competitive-analysis">>],
    [keyword |-> <<"d", "o", "c", "u", "m", "e", "n", "t">>,
     useCases |-> <<"multi-document-analysis", "pdf-analysis">>],
    [keyword |-> <<"p", "d", "f">>,
     useCases |-> <<"pdf-analysis", "multi-document-analysis">>],
    [keyword |-> <<"p", "a", "p", "e", "r", "s">>,
     useCases |-> <<"academic-research", "multi-document-analysis">>],
    [keyword |-> <<"s", "t", "u", "d", "y">>,
     useCases |-> <<"academic-research">>],
    [keyword |-> <<"s", "u", "m", "m", "a", "r", "i", "z", "e">>,
     useCases |-> <<"summarization", "meeting-summarization">>],
    [keyword |-> <<"s", "u", "m", "m", "a", "r", "y">>,
     useCases |-> <<"summarization">>],
    [keyword |-> <<"m", "a", "r", "k", "e", "t">>,
     useCases |-> <<"market-research", "competitive-analysis">>],
    [keyword |-> <<"c", "o", "m", "p", "e", "t", "i", "t", "o", "r">>,
     useCases |-> <<"competitive-analysis">>],
    [keyword |-> <<"i", "m", "a", "g", "e">>,
     useCases |-> <<"image-generation", "image-editing">>],
    [keyword |-> <<"p", "i", "c", "t", "u", "r", "e">>,
     useCases |-> <<"image-generation">>],
    [keyword |-> <<"p", "h", "o", "t", "o">>,
     useCases |-> <<"image-editing", "image-generation">>],
    [keyword |-> <<"l", "o", "g", "o">>,
     useCases |-> <<"logo-design">>],
    [keyword |-> <<"d", "e", "s", "i", "g", "n">>,
     useCases |-> <<"ui-design", "logo-design", "mockup-creation">>],
    [keyword |-> <<"v", "i", "d", "e", "o">>,
     useCases |-> <<"video-generation", "video-editing">>],
    [keyword |-> <<"a", "n", "i", "m", "a", "t", "i", "o", "n">>,
     useCases |-> <<"video-generation">>],
    [keyword |-> <<"u", "i">>,
     useCases |-> <<"ui-design", "mockup-creation">>],
    [keyword |-> <<"m", "o", "c", "k", "u", "p">>,
     useCases |-> <<"mockup-creation">>],
    [keyword |-> <<"d", "i", "a", "g", "r", "a", "m">>,
     useCases |-> <<"diagram-creation">>],
    [keyword |-> <<"f", "l", "o", "w", "c", "h", "a", "r", "t">>,
     useCases |-> <<"diagram-creation">>],
    [keyword |-> <<"a", "u", "d", "i", "o">>,
     useCases |-> <<"audio-generation", "voice-cloning">>],
    [keyword |-> <<"v", "o", "i", "c", "e">>,
     useCases |-> <<"voice-cloning", "audio-generation">>],
    [keyword |-> <<"p", "o", "d", "c", "a", "s", "t">>,
     useCases |-> <<"podcast-generation">>],
    [keyword |-> <<"m", "e", "e", "t", "i", "n", "g">>,
     useCases |-> <<"meeting-transcription", "meeting-summarization">>],
    [keyword |-> <<"n", "o", "t", "e", "s">>,
     useCases |-> <<"note-taking", "meeting-summarization">>],
    [keyword |-> <<"t", "r", "a", "n", "s", "c", "r", "i", "b", "e">>,
     useCases |-> <<"meeting-transcription">>],
    [keyword |-> <<"t", "a", "s", "k">>,
     useCases |-> <<"workflow-automation">>],
    [keyword |-> <<"a", "u", "t", "o", "m", "a", "t", "e">>,
     useCases |-> <<"workflow-automation", "automation-scripts">>],
    [keyword |-> <<"w", "o", "r", "k", "f", "l", "o", "w">>,
     useCases |-> <<"workflow-automation">>],
    [keyword |-> <<"d", "a", "t", "a">>,
     useCases |-> <<"data-analysis", "data-visualization">>],
    [keyword |-> <<"a", "n", "a", "l", "y", "t", "i", "c", "s">>,
     useCases |-> <<"data-analysis", "reporting">>],
    [keyword |-> <<"d", "a", "s", "h", "b", "o", "a", "r", "d">>,
     useCases |-> <<"data-visualization", "reporting">>],
    [keyword |-> <<"c", "h", "a", "r", "t">>,
     useCases |-> <<"data-visualization">>],
    [keyword |-> <<"g", "r", "a", "p", "h">>,
     useCases |-> <<"data-visualization">>],
    [keyword |-> <<"s", "p", "r", "e", "a", "d", "s", "h", "e", "e", "t">>,
     useCases |-> <<"spreadsheet-automation">>],
    [keyword |-> <<"e", "x", "c", "e", "l">>,
     useCases |-> <<"spreadsheet-automation">>],
    [keyword |-> <<"c", "h", "a", "t", "b", "o", "t">>,
     useCases |-> <<"chatbot-creation", "customer-support">>],
    [keyword |-> <<"s", "u", "p", "p", "o", "r", "t">>,
     useCases |-> <<"customer-support">>],
    [keyword |-> <<"t", "r", "a", "n", "s", "l", "a", "t", "e">>,
     useCases |-> <<"translation">>],
    [keyword |-> <<"t", "r", "a", "n", "s", "l", "a", "t", "i", "o", "n">>,
     useCases |-> <<"translation">>],
    [keyword |-> <<"g", "r", "a", "m", "m", "a", "r">>,
     useCases |-> <<"grammar-checking", "proofreading">>],
    [keyword |-> <<"p", "r", "o", "o", "f", "r", "e", "a", "d">>,
     useCases |-> <<"proofreading">>],
    [keyword |-> <<"b", "u", "s", "i", "n", "e", "s", "s", " ", "p", "l", "a", "n">>,
     useCases |-> <<"business-plan-writing">>],
    [keyword |-> <<"s", "w", "o", "t">>,
     useCases |-> <<"swot-analysis">>],
    [keyword |-> <<"p", "r", "o", "p", "o", "s", "a", "l">>,
     useCases |-> <<"proposal-writing">>]
>>

\* String.prototype.toLowerCase, on the letters the drawn texts use
LowerChar(c) ==
    CASE c = "A" -> "a" [] c = "B" -> "b" [] c = "G" -> "g" [] c = "L" -> "l"
      [] c = "O" -> "o" [] c = "P" -> "p" [] c = "U" -> "u" [] c = "I" -> "i"
      [] OTHER -> c

toLowerCase(text) == [i \in 1..Len(text) |-> LowerChar(text[i])]

\* String.prototype.includes
Includes(text, keyword) ==
    \E i \in 0..(Len(text) - Len(keyword)) :
        \A j \in 1..Len(keyword) : text[i + j] = keyword[j]

\* Set.add of each element of a list, in order (insertion order is kept)
RECURSIVE AddAll(_, _, _)
AddAll(detected, useCases, n) ==
    IF n = 0 THEN detected
    ELSE LET d == AddAll(detected, useCases, n - 1)
         IN IF useCases[n] \in SeqRange(d) THEN d ELSE Append(d, useCases[n])

\* the entries of KEYWORD_MAP whose keyword the text includes, in table order
IncludedEntries(lowercaseText) ==
    LET Hit(e) == Includes(lowercaseText, e.keyword)
    IN SelectSeq(KEYWORD_MAP, Hit)

\* the loop of lines 196-200, over the first n entries that pass the if
RECURSIVE KeywordLoop(_, _)
KeywordLoop(hits, n) ==
    IF n = 0 THEN << >>
    ELSE AddAll(KeywordLoop(hits, n - 1), hits[n].useCases, Len(hits[n].useCases))

parseUserInput(text) ==
    LET hits == IncludedEntries(toLowerCase(text))
    IN KeywordLoop(hits, Len(hits))

\* buildUserRequirements, lines 386-401
buildUserRequirements(textInput, codingLevel, budget, experienceLevel) ==
    Requirement(ArrayUseCases(parseUserInput(textInput)), codingLevel, budget, experienceLevel)

--------------------------------------------------------------------------
(* The catalog and the enrichment file drawn for the checks. *)

Tool(name, final_score) == [name |-> name, final_score |-> final_score]

Enrichment(ucc, coding_level, user_levels, has_free_tier, key_differentiator) ==
    [use_case_compatibility |-> ucc,
     technical_profile |-> [coding_level |-> coding_level, user_levels |-> user_levels],
     best_for |-> [key_differentiator |-> key_differentiator],
     limitations |-> << >>,
     pricing_tier |-> [has_free_tier |-> has_free_tier]]

Compat(strength, type) == [strength |-> strength, type |-> type]

\* Five named tools; Orphan has no enrichment record.
Cursor == Tool("Cursor", 60)
Copilot == Tool("Copilot", 70)
Figma == Tool("Figma", 80)
Wix == Tool("Wix", 90)
Orphan == Tool("Orphan", 95)

PoolTools == {Cursor, Copilot, Figma, Wix, Orphan}

\* Tools of the bulk catalog, all with the same profile.
BulkSize == 11
BulkName(i) == "Bulk" \o ToString(i)
BulkCatalog == [i \in 1..BulkSize |-> Tool(BulkName(i), i)]
BulkNames == {BulkName(i) : i \in 1..BulkSize}

PoolEnrichments ==
    [n \in {"Cursor", "Copilot", "Figma", "Wix"} |->
        CASE n = "Cursor" ->
                Enrichment((TagA :> Compat(95, "primary")) @@ (TagB :> Compat(30, "secondary")),
                           "developer", {"beginner", "intermediate"}, TRUE, "AI-first editor")
          [] n = "Copilot" ->
                Enrichment((TagA :> Compat(30, "secondary")) @@ (TagC :> Compat(10, "secondary")),
                           "developer", {"expert"}, TRUE, "")
          [] n = "Figma" ->
                Enrichment((TagB :> Compat(0, "primary")),
                           "developer", {"beginner"}, FALSE, "Design handoff")
          [] n = "Wix" ->
                Enrichment((TagA :> Compat(100, "primary")),
                           "no-code", {"beginner"}, FALSE, "")]

BulkEnrichment ==
    Enrichment((TagA :> Compat(95, "primary")), "low-code", {"beginner"}, TRUE, "")

EnrichmentFile == PoolEnrichments @@ [n \in BulkNames |-> BulkEnrichment]

\* Catalogs: every list of at most two distinct named tools, every order of
\* the three developer tools, and the bulk catalog.
Catalogs ==
    {<< >>} \cup {<<t>> : t \in PoolTools}
        \cup {s \in {<<t, u>> : t \in PoolTools, u \in PoolTools} : s[1] # s[2]}
        \cup Reorderings(<<Cursor, Copilot, Figma>>)
        \cup {BulkCatalog}

--------------------------------------------------------------------------
(* generateReasoning, lines 298-332.  A reason is a record of the rule     *)
(* and of what the template string is filled with.                         *)

Reason(rule, arg) == [rule |-> rule, arg |-> arg]

\* matchedUseCases.filter(m => m.type === 'primary').map(m => m.name)
RECURSIVE PrimaryNames(_, _)
PrimaryNames(matchedUseCases, n) ==
    IF n = 0 THEN << >>
    ELSE IF matchedUseCases[n].type = "primary"
         THEN Append(PrimaryNames(matchedUseCases, n - 1), matchedUseCases[n].name)
         ELSE PrimaryNames(matchedUseCases, n - 1)

\* every matched use case is listed, whatever its type
generateReasoningAnyType(userReqs, tool, enrichment, matchedUseCases) ==
    LET names == [i \in 1..Len(matchedUseCases) |-> matchedUseCases[i].name]
        r1 == IF Len(names) > 0 THEN <<Reason("Excellent for", names)>> ELSE << >>
        r2 == IF enrichment.best_for.key_differentiator # ""
              THEN <<Reason("differentiator", <<enrichment.best_for.key_differentiator>>)>>
              ELSE << >>
        r3 == IF userReqs.coding_level # Undefined
                 /\ userReqs.coding_level = enrichment.technical_profile.coding_level
              THEN <<Reason("Perfect match for", <<userReqs.coding_level>>)>> ELSE << >>
        r4 == IF userReqs.budget = "free" /\ enrichment.pricing_tier.has_free_tier
              THEN <<Reason("Has a free tier available", << >>)>> ELSE << >>
    IN r1 \o r2 \o r3 \o r4

generateReasoning(userReqs, tool, enrichment, matchedUseCases) ==
    LET primaryMatches == PrimaryNames(matchedUseCases, Len(matchedUseCases))
        r1 == IF Len(primaryMatches) > 0
              THEN <<Reason("Excellent for", primaryMatches)>> ELSE << >>
        r2 == IF enrichment.best_for.key_differentiator # ""
              THEN <<Reason("differentiator", <<enrichment.best_for.key_differentiator>>)>>
              ELSE << >>
        r3 == IF userReqs.coding_level # Undefined
                 /\ userReqs.coding_level = enrichment.technical_profile.coding_level
              THEN <<Reason("Perfect match for", <<userReqs.coding_level>>)>> ELSE << >>
        r4 == IF userReqs.budget = "free" /\ enrichment.pricing_tier.has_free_tier
              THEN <<Reason("Has a free tier available", << >>)>> ELSE << >>
    IN r1 \o r2 \o r3 \o r4

--------------------------------------------------------------------------
(* matchToolsToUserNeeds, lines 337-381 *)

Threshold == 30
TopN == 10

\* a match is pushed whatever its score
PushAlways(score) == TRUE

\* line 355: if (score >= 30)
ReasonableCompatibility(score) == score >= Threshold

\* a lookup that falls back on a default record
LookupOrDefault(enrichments, name) ==
    IF name \in DOMAIN enrichments THEN <<enrichments[name]>> ELSE <<BulkEnrichment>>

\* line 345: enrichments[tool.name], as a list of one record, empty when
\* the name is not a key
Lookup(enrichments, name) ==
    IF name \in DOMAIN enrichments THEN <<enrichments[name]>> ELSE << >>

\* The loop of lines 344-369 over the first n tools: the matches array.
RECURSIVE MatchLoop(_, _, _, _)
MatchLoop(userInput, tools, enrichments, n) ==
    IF n = 0 THEN << >>
    ELSE LET matches == MatchLoop(userInput, tools, enrichments, n - 1)
             tool == tools[n]
             found == Lookup(enrichments, tool.name)
         IN IF Len(found) = 0
            THEN matches
            ELSE LET enrichment == found[1]
                     r == calculateCompatibilityScore(userInput, tool, enrichment)
                 IN IF ReasonableCompatibility(r.score)
                    THEN Append(matches,
                                [tool |-> tool,
                                 enrichment |-> enrichment,
                                 compatibilityScore |-> r.score,
                                 overallScore |-> tool.final_score,
                                 matchedUseCases |-> r.matchedUseCases,
                                 reasoning |-> generateReasoning(userInput, tool, enrichment,
                                                                 r.matchedUseCases),
                                 limitations |-> enrichment.limitations,
                                 confidence |-> r.confidence])
                    ELSE matches

\* the comparator of lines 372-377: negative when a goes first
compare(a, b) ==
    IF MathAbs(a.compatibilityScore - b.compatibilityScore) > 5
    THEN b.compatibilityScore - a.compatibilityScore
    ELSE b.overallScore - a.overallScore

\* Array.prototype.sort (ECMA-262 23.1.3.30).  With a comparator that is a
\* consistent ordering of the elements the result is the stable sort; with
\* any other comparator the order is implementation-defined.
ConsistentComparator(S) ==
    /\ \A a \in S : compare(a, a) = 0
    /\ \A a, b \in S : (compare(a, b) = 0) => (compare(b, a) = 0)
    /\ \A a, b \in S : (compare(a, b) < 0) => (compare(b, a) > 0)
    /\ \A a, b, c \in S : (compare(a, b) = 0 /\ compare(b, c) = 0) => (compare(a, c) = 0)
    /\ \A a, b, c \in S : (compare(a, b) < 0 /\ compare(b, c) < 0) => (compare(a, c) < 0)
    /\ \A a, b, c \in S : (compare(a, b) > 0 /\ compare(b, c) > 0) => (compare(a, c) > 0)

\* stable insertion of x into a sorted list: after every element that does
\* not come after x
InsertSorted(s, x) ==
    LET k == Cardinality({i \in 1..Len(s) : compare(s[i], x) <= 0})
    IN SubSeq(s, 1, k) \o <<x>> \o SubSeq(s, k + 1, Len(s))

RECURSIVE StableSort(_, _)
StableSort(s, n) ==
    IF n = 0 THEN << >> ELSE InsertSorted(StableSort(s, n - 1), s[n])

SortOutcomes(matches) ==
    IF ConsistentComparator(SeqRange(matches))
    THEN {StableSort(matches, Len(matches))}
    ELSE Reorderings(matches)

\* the whole list, untruncated
SliceNothing(s, n) == s

\* matches.slice(0, 10)
Slice(s, n) == SubSeq(s, 1, MathMin(Len(s), n))

\* the possible return values
matchToolsToUserNeeds(userInput, tools, enrichments) ==
    {Slice(sorted, TopN) :
        sorted \in SortOutcomes(MatchLoop(userInput, tools, enrichments, Len(tools)))}

--------------------------------------------------------------------------
(* The interpreter's answer, as the fetch of /api/smart-search delivers it *)
(* (lines 452-462), and the criteria of route.ts lines 14-24.              *)

\* missing: the fields that the parsed JSON does not have (every field for
\* a JSON value that is no object).
Criteria(useCases, excludeTools, codingLevel, budget, experienceLevel, reasoning, missing) ==
    [useCases |-> useCases,
     excludeTools |-> excludeTools,
     constraints |-> [codingLevel |-> codingLevel, budget |-> budget,
                      experienceLevel |-> experienceLevel],
     reasoning |-> reasoning,
     missing |-> missing]

NoCriteria == Criteria(<< >>, << >>, Undefined, Undefined, Undefined, "", {})

\* fetched: the fetch promise resolved; bodyIsJson: response.json() resolved;
\* ok: response.ok; success: data.success
Answer(fetched, bodyIsJson, ok, success, criteria) ==
    [fetched |-> fetched, bodyIsJson |-> bodyIsJson, ok |-> ok, success |-> success,
     criteria |-> criteria, arrived |-> TRUE]

NoAnswer == [fetched |-> FALSE, bodyIsJson |-> FALSE, ok |-> FALSE, success |-> FALSE,
             criteria |-> NoCriteria, arrived |-> FALSE]

WellFormedCriteria ==
    {Criteria(u, x, c, b, e, "because", {}) :
        u \in {<< >>, <<TagA>>, <<TagB, TagA>>, <<TagC>>},
        x \in {<< >>, <<"Cursor">>, <<"Wix", "Bulk1">>},
        c \in {Undefined, "no-code", "low-code", "developer", "expert"},
        b \in {Undefined, "free", "starter"},
        e \in {Undefined, "advanced"}}

MalformedCriteria ==
    {Criteria(<<TagA>>, << >>, Undefined, Undefined, Undefined, "because", m) :
        m \in {{"useCases", "excludeTools", "constraints", "reasoning"},
               {"excludeTools"}, {"constraints"}, {"reasoning"}}}

FailedAnswers ==
    {Answer(FALSE, FALSE, FALSE, FALSE, NoCriteria),   \* fetch rejects
     Answer(TRUE, FALSE, TRUE, FALSE, NoCriteria),     \* body is not JSON
     Answer(TRUE, TRUE, FALSE, FALSE, NoCriteria),     \* 500 with success: false
     Answer(TRUE, TRUE, TRUE, FALSE, NoCriteria),      \* 200 with success: false
     Answer(TRUE, TRUE, FALSE, TRUE, NoCriteria)}      \* non-2xx with success: true

SuccessAnswers ==
    {Answer(TRUE, TRUE, TRUE, TRUE, c) : c \in WellFormedCriteria \cup MalformedCriteria}

Answers == FailedAnswers \cup SuccessAnswers

\* lines 452-462 complete without a throw
InterpreterSucceeded(answer) ==
    /\ answer.fetched
    /\ answer.bodyIsJson
    /\ ~(~answer.ok \/ ~answer.success)

--------------------------------------------------------------------------
(* matchToolsToQuerySmart, the synchronous part of lines 472-542 *)

\* const tools = toolsData.tools || []  (lines 416 and 467)
ToolsOf(doc) == IF doc.isArray THEN << >> ELSE doc.tools

\* a filter that keeps the excluded tools
NotExcludedNever(criteria, tool) == TRUE

\* lines 476-479
NotExcluded(criteria, tool) == tool.name \notin SeqRange(criteria.excludeTools)

\* a filter on a shared threshold: only tools of the requested level pass
CodingLevelExact(criteria, tool, enrichments) ==
    IF criteria.constraints.codingLevel # Undefined /\ tool.name \in DOMAIN enrichments
    THEN enrichments[tool.name].technical_profile.coding_level
            = criteria.constraints.codingLevel
    ELSE TRUE

\* lines 481-497
CodingLevelAllows(criteria, tool, enrichments) ==
    IF criteria.constraints.codingLevel # Undefined /\ tool.name \in DOMAIN enrichments
    THEN LET toolCodingLevel == enrichments[tool.name].technical_profile.coding_level
         IN /\ ~(criteria.constraints.codingLevel = "no-code"
                 /\ toolCodingLevel \in {"developer", "expert"})
            /\ ~(criteria.constraints.codingLevel = "expert" /\ toolCodingLevel = "no-code")
    ELSE TRUE

\* lines 503-512: use_cases is the object that reduce builds
SmartRequirements(criteria) ==
    Requirement(ObjectUseCases(AddAll(<< >>, criteria.useCases, Len(criteria.useCases))),
                criteria.constraints.codingLevel,
                criteria.constraints.budget,
                criteria.constraints.experienceLevel)

\* lines 516-529: compatibility.strength >= 0.3
HasMatchingUseCase(criteria, tool, enrichments) ==
    /\ tool.name \in DOMAIN enrichments
    /\ \E useCase \in SeqRange(criteria.useCases) :
          /\ useCase \in DOMAIN enrichments[tool.name].use_case_compatibility
          /\ enrichments[tool.name].use_case_compatibility[useCase].strength * 10 >= 3

\* A TypeError is thrown on reading a property of undefined: excludeTools
\* (line 477, once per tool), constraints (lines 483, 509), useCases (line 505).
SmartThrows(criteria, toolList) ==
    \/ "excludeTools" \in criteria.missing /\ Len(toolList) > 0
    \/ "constraints" \in criteria.missing
    \/ "useCases" \in criteria.missing

\* lines 535-539
SmartResult(match, criteria) ==
    [tool |-> match.tool,
     matchScore |-> match.compatibilityScore,
     matchReasons |-> <<match.reasoning,
                        IF "reasoning" \in criteria.missing THEN Undefined
                        ELSE criteria.reasoning>>]

\* the possible result lists of the AI path
SmartResults(criteria, toolList, enrichments) ==
    LET Keep1(tool) == NotExcluded(criteria, tool)
                          /\ CodingLevelAllows(criteria, tool, enrichments)
        filteredTools == SelectSeq(toolList, Keep1)
        Keep2(tool) == HasMatchingUseCase(criteria, tool, enrichments)
        useCaseFilteredTools == SelectSeq(filteredTools, Keep2)
    IN {[i \in 1..Len(matches) |-> SmartResult(matches[i], criteria)] :
           matches \in matchToolsToUserNeeds(SmartRequirements(criteria),
                                             useCaseFilteredTools, enrichments)}

\* matchToolsToQuery, lines 423-433: the possible result lists
QueryResults(text, toolList, enrichments) ==
    {[i \in 1..Len(matches) |->
         [tool |-> matches[i].tool,
          matchScore |-> matches[i].compatibilityScore,
          matchReasons |-> <<matches[i].reasoning>>]] :
        matches \in matchToolsToUserNeeds(
                        buildUserRequirements(text, Undefined, Undefined, Undefined),
                        toolList, enrichments)}

--------------------------------------------------------------------------
(* POST of app/api/smart-search/route.ts, lines 26-148.  A text is a list  *)
(* of symbols: the characters backtick, { } 1, space and newline, and M,   *)
(* which stands for the member list "useCases":[...],"excludeTools":[...], *)
(* "requiredFeatures":[...],"constraints":{...},"reasoning":"..." of the   *)
(* prompt (lines 48-59).                                                   *)

\* the backtick character
Tick == "backtick"

Alphabet == {Tick, "{", "}", "1", " ", "\n", "M"}
WhiteSpace == {" ", "\n"}

MaxText == 4
Texts == UNION {[1..n -> Alphabet] : n \in 0..MaxText}

Backticks == <<Tick, Tick, Tick>>
BackticksJson == <<Tick, Tick, Tick, "j", "s", "o", "n">>

\* String.prototype.trim
trim(text) ==
    LET inked == {i \in 1..Len(text) : text[i] \notin WhiteSpace}
    IN IF inked = {} THEN << >>
       ELSE SubSeq(text, CHOOSE i \in inked : \A k \in inked : i <= k,
                         CHOOSE i \in inked : \A k \in inked : i >= k)

startsWith(text, prefix) ==
    Len(text) >= Len(prefix) /\ SubSeq(text, 1, Len(prefix)) = prefix

endsWith(text, suffix) ==
    Len(text) >= Len(suffix)
        /\ SubSeq(text, Len(text) - Len(suffix) + 1, Len(text)) = suffix

\* text.slice(n)
SliceFrom(text, n) == SubSeq(text, n + 1, Len(text))

\* text.slice(0, -n)
SliceOff(text, n) == SubSeq(text, 1, Len(text) - n)

\* no fence is removed
StripNothing(responseText) == trim(responseText)

\* lines 116-125: jsonText after the two ifs
StripFences(responseText) ==
    LET trimmed == trim(responseText)
        opened == IF startsWith(trimmed, BackticksJson) THEN SliceFrom(trimmed, 7)
                  ELSE IF startsWith(trimmed, Backticks) THEN SliceFrom(trimmed, 3)
                  ELSE trimmed
    IN IF endsWith(opened, Backticks) THEN SliceOff(opened, 3) ELSE opened

\* the fields of the JSON object the prompt asks for (lines 48-59)
ExpectedFields == {"useCases", "excludeTools", "requiredFeatures", "constraints", "reasoning"}

NoValue == [ok |-> FALSE, kind |-> "none", digits |-> 0, fields |-> {}]

\* JSON.parse on the texts of the alphabet: white space around a value is
\* skipped; the values are the numbers 1, 11, ..., the object {} and the
\* object {M}; every other text is a SyntaxError (ok = FALSE).
JSONParse(text) ==
    LET body == trim(text)
        n == Len(body)
    IN IF n >= 1 /\ \A i \in 1..n : body[i] = "1"
       THEN [ok |-> TRUE, kind |-> "number", digits |-> n, fields |-> {}]
       ELSE IF n >= 2 /\ body[1] = "{" /\ body[n] = "}"
                 /\ trim(SubSeq(body, 2, n - 1)) \in {<< >>, <<"M">>}
       THEN [ok |-> TRUE, kind |-> "object", digits |-> 0,
             fields |-> IF trim(SubSeq(body, 2, n - 1)) = <<"M">>
                        THEN ExpectedFields ELSE {}]
       ELSE NoValue

\* the request bodies and the outcomes of anthropic.messages.create
Requests == {"query", "no query", "bad body"}
Services == {"text", "other block", "error"}

NoResponse ==
    [called |-> FALSE, request |-> "none", service |-> "none", status |-> 0,
     success |-> FALSE, criteria |-> NoValue, mode |-> "none"]

Respond(request, service, status, success, criteria, mode) ==
    [called |-> TRUE, request |-> request, service |-> service, status |-> status,
     success |-> success, criteria |-> criteria, mode |-> mode]

\* POST, lines 26-148.  The 400 body has no success field (success is
\* FALSE for the caller's test of data.success).
POST(request, service, responseText) ==
    IF request = "bad body"
    THEN Respond(request, "none", 500, FALSE, NoValue, "fallback")
    ELSE IF request = "no query"
    THEN Respond(request, "none", 400, FALSE, NoValue, "none")
    ELSE IF service = "error"
    THEN Respond(request, service, 500, FALSE, NoValue, "fallback")
    ELSE LET text == IF service = "text" THEN responseText ELSE << >>
             criteria == JSONParse(trim(StripFences(text)))
         IN IF criteria.ok
            THEN Respond(request, service, 200, TRUE, criteria, "ai-powered")
            ELSE Respond(request, service, 500, FALSE, NoValue, "fallback")

\* The fences an interpreter puts around its JSON: none, or an opening
\* of three backticks, bare or tagged json, and a closing one, on lines of
\* their own or not.
NoFence == [open |-> << >>, sep |-> << >>, close |-> << >>]
Fences ==
    {NoFence} \cup {[open |-> o, sep |-> p, close |-> Backticks] :
                      o \in {Backticks, BackticksJson}, p \in {<< >>, <<"\n">>}}

Wrap(text, fence) == fence.open \o fence.sep \o text \o fence.sep \o fence.close

--------------------------------------------------------------------------
(* Scorer harness: calculateCompatibilityScore applied to drawn inputs.    *)

\* coding_level, budget and experience_level as the form and the
\* interpreter (route.ts lines 18-22) can set them
CodingOptions == {Undefined} \cup CodingLevels
BudgetOptions == {Undefined, "free", "any", "starter"}
ExperienceOptions == {Undefined, "beginner", "advanced"}

ScorerRequirements ==
    {Requirement(u, c, b, e) :
        u \in {ArrayUseCases(s) : s \in DistinctTagArrays} \cup {ObjectUseCases(<<TagA>>)},
        c \in CodingOptions, b \in BudgetOptions, e \in ExperienceOptions}

CompatMaps ==
    {a @@ b :
        a \in {<< >>} \cup {(TagA :> Compat(st, ty)) : st \in Strengths,
                                                     ty \in {"primary", "secondary"}},
        b \in {<< >>, (TagB :> Compat(95, "secondary")), (TagB :> Compat(0, "primary"))}}

ScorerEnrichments ==
    {Enrichment(ucc, c, l, f, "") :
        ucc \in CompatMaps, c \in {"no-code", "developer"},
        l \in {{"beginner"}, {"expert"}}, f \in BOOLEAN}

NoOutput == [called |-> FALSE, score |-> 0, matchedUseCases |-> << >>, confidence |-> 0]

--------------------------------------------------------------------------
(* Calls of the three exported entry points.  Each await of the source is  *)
(* one step: the fetch and the json() of its body settle together.         *)

Procs == {1, 2}

SmartSearchUrl == "/api/smart-search"
CatalogUrl == "/ai_tracker_enhanced.json"
EnrichmentUrl == "/use_cases_enrichment.json"

\* The catalog document: {tools: [...]}, or a bare array.
CatalogDocs ==
    {[isArray |-> FALSE, tools |-> c] : c \in Catalogs}
        \cup {[isArray |-> TRUE, tools |-> <<Cursor, Wix>>]}

\* Query texts: "ui", "Logo UI", "app".
QueryTexts ==
    {<<"u", "i">>, <<"L", "o", "g", "o", " ", "U", "I">>, <<"a", "p", "p">>}

NoText == << >>
NoRequirement == Requirement(ArrayUseCases(<< >>), Undefined, Undefined, Undefined)

Pending == [status |-> "pending", results |-> << >>, mode |-> "none", error |-> "none"]
Resolved(results, mode) ==
    [status |-> "resolved", results |-> results, mode |-> mode, error |-> "none"]
Rejected(error) ==
    [status |-> "rejected", results |-> << >>, mode |-> "none", error |-> error]

\* the harness variables while calls are modelled, and the reverse
ScorerIdle ==
    /\ sReq = NoRequirement
    /\ sEnr = BulkEnrichment
    /\ sOut = NoOutput

AdapterIdle ==
    /\ aText = << >>
    /\ aFence = NoFence
    /\ aResponse = NoResponse

HarnessIdle == ScorerIdle /\ AdapterIdle

CallsIdle ==
    /\ catalogDoc = [isArray |-> FALSE, tools |-> << >>]
    /\ enrichmentsDoc = EnrichmentFile
    /\ pc = [q \in Procs |-> "off"]
    /\ entry = [q \in Procs |-> "none"]
    /\ query = [q \in Procs |-> NoText]
    /\ callReq = [q \in Procs |-> NoRequirement]
    /\ aiAnswer = [q \in Procs |-> NoAnswer]
    /\ toolsLoaded = [q \in Procs |-> << >>]
    /\ ret = [q \in Procs |-> Pending]
    /\ localRan = [q \in Procs |-> FALSE]
    /\ dataFailed = [q \in Procs |-> FALSE]
    /\ inflight = {}

\* One call at a time: call 1 is ready to start.
Init ==
    /\ HarnessIdle
    /\ catalogDoc \in CatalogDocs
    /\ enrichmentsDoc = EnrichmentFile
    /\ pc = [q \in Procs |-> IF q = 1 THEN "idle" ELSE "off"]
    /\ entry = [q \in Procs |-> "none"]
    /\ query = [q \in Procs |-> NoText]
    /\ callReq = [q \in Procs |-> NoRequirement]
    /\ aiAnswer = [q \in Procs |-> NoAnswer]
    /\ toolsLoaded = [q \in Procs |-> << >>]
    /\ ret = [q \in Procs |-> Pending]
    /\ localRan = [q \in Procs |-> FALSE]
    /\ dataFailed = [q \in Procs |-> FALSE]
    /\ inflight = {}

\* a fetch that also starts the catalog fetch ahead of time
IssueWithPrefetch(q, url) == inflight' = inflight \cup {<<q, url>>, <<q, CatalogUrl>>}

Issue(q, url) == inflight' = inflight \cup {<<q, url>>}

Settle(q, url) == inflight' = inflight \ {<<q, url>>}

SettleAndIssue(q, url, next) == inflight' = (inflight \ {<<q, url>>}) \cup {<<q, next>>}

\* matchToolsToUserNeeds called by a page with the loaded data
CallUserNeeds(q) ==
    /\ pc[q] = "idle"
    /\ \E req \in ScorerRequirements :
          \E matches \in matchToolsToUserNeeds(req, ToolsOf(catalogDoc), enrichmentsDoc) :
             /\ callReq' = [callReq EXCEPT ![q] = req]
             /\ ret' = [ret EXCEPT ![q] = Resolved(matches, "none")]
    /\ entry' = [entry EXCEPT ![q] = "matchToolsToUserNeeds"]
    /\ pc' = [pc EXCEPT ![q] = "done"]
    /\ UNCHANGED <<harnessVars, catalogDoc, enrichmentsDoc, query, aiAnswer, toolsLoaded,
                   localRan, dataFailed, inflight>>

\* matchToolsToQuery up to its first await (line 414)
CallQuery(q) ==
    /\ pc[q] = "idle"
    /\ \E text \in QueryTexts : query' = [query EXCEPT ![q] = text]
    /\ entry' = [entry EXCEPT ![q] = "matchToolsToQuery"]
    /\ pc' = [pc EXCEPT ![q] = "q_await_catalog"]
    /\ Issue(q, CatalogUrl)
    /\ UNCHANGED <<harnessVars, catalogDoc, enrichmentsDoc, callReq, aiAnswer, toolsLoaded,
                   ret, localRan, dataFailed>>

\* matchToolsToQuerySmart up to its first await (line 452)
CallSmart(q) ==
    /\ pc[q] = "idle"
    /\ \E text \in QueryTexts : query' = [query EXCEPT ![q] = text]
    /\ entry' = [entry EXCEPT ![q] = "matchToolsToQuerySmart"]
    /\ pc' = [pc EXCEPT ![q] = "await_ai"]
    /\ Issue(q, SmartSearchUrl)
    /\ UNCHANGED <<harnessVars, catalogDoc, enrichmentsDoc, callReq, aiAnswer, toolsLoaded,
                   ret, localRan, dataFailed>>

\* a catch block that rethrows the error it caught
FallbackRethrows(q, settled, error) ==
    /\ localRan' = localRan
    /\ pc' = [pc EXCEPT ![q] = "rejected"]
    /\ ret' = [ret EXCEPT ![q] = Rejected(error)]
    /\ Settle(q, settled)

\* the catch block, lines 544-548: the error is logged, and
\* matchToolsToQuery(query) runs up to its first await (line 414)
Fallback(q, settled, error) ==
    /\ localRan' = [localRan EXCEPT ![q] = TRUE]
    /\ pc' = [pc EXCEPT ![q] = "q_await_catalog"]
    /\ ret' = ret
    /\ SettleAndIssue(q, settled, CatalogUrl)

\* lines 452-465: the interpreter's answer arrives
InterpreterResponds(q) ==
    /\ pc[q] = "await_ai"
    /\ \E answer \in Answers :
          /\ aiAnswer' = [aiAnswer EXCEPT ![q] = answer]
          /\ IF InterpreterSucceeded(answer)
             THEN /\ pc' = [pc EXCEPT ![q] = "ai_await_catalog"]
                  /\ SettleAndIssue(q, SmartSearchUrl, CatalogUrl)
                  /\ UNCHANGED <<localRan, ret>>
             ELSE Fallback(q, SmartSearchUrl, "AI search failed")
    /\ UNCHANGED <<harnessVars, catalogDoc, enrichmentsDoc, entry, query, callReq,
                   toolsLoaded, dataFailed>>

\* lines 465-469: the catalog arrives, or its fetch fails, inside the try
SmartCatalogResponds(q) ==
    /\ pc[q] = "ai_await_catalog"
    /\ \E loaded \in BOOLEAN :
          IF loaded
          THEN /\ toolsLoaded' = [toolsLoaded EXCEPT ![q] = ToolsOf(catalogDoc)]
               /\ pc' = [pc EXCEPT ![q] = "ai_await_enrich"]
               /\ SettleAndIssue(q, CatalogUrl, EnrichmentUrl)
               /\ UNCHANGED <<localRan, dataFailed, ret>>
          ELSE /\ dataFailed' = [dataFailed EXCEPT ![q] = TRUE]
               /\ Fallback(q, CatalogUrl, "DataUnavailable")
               /\ UNCHANGED toolsLoaded
    /\ UNCHANGED <<harnessVars, catalogDoc, enrichmentsDoc, entry, query, callReq, aiAnswer>>

\* an AI path that filters the catalog list in place
SmartEnrichRespondsInPlace(q) ==
    /\ pc[q] = "ai_await_enrich"
    /\ \E loaded \in BOOLEAN :
          IF loaded /\ ~SmartThrows(aiAnswer[q].criteria, toolsLoaded[q])
          THEN /\ \E results \in SmartResults(aiAnswer[q].criteria, toolsLoaded[q],
                                              enrichmentsDoc) :
                     ret' = [ret EXCEPT ![q] = Resolved(results, "ai-powered")]
               /\ callReq' = [callReq EXCEPT ![q] = SmartRequirements(aiAnswer[q].criteria)]
               /\ pc' = [pc EXCEPT ![q] = "done"]
               /\ Settle(q, EnrichmentUrl)
               /\ LET Keep(tool) == /\ NotExcluded(aiAnswer[q].criteria, tool)
                                     /\ CodingLevelAllows(aiAnswer[q].criteria, tool,
                                                          enrichmentsDoc)
                  IN catalogDoc' = [catalogDoc EXCEPT !.tools = SelectSeq(toolsLoaded[q], Keep)]
               /\ UNCHANGED <<localRan, dataFailed>>
          ELSE /\ dataFailed' = [dataFailed EXCEPT ![q] = dataFailed[q] \/ ~loaded]
               /\ Fallback(q, EnrichmentUrl, IF loaded THEN "TypeError" ELSE "DataUnavailable")
               /\ UNCHANGED <<callReq, catalogDoc>>
    /\ UNCHANGED <<harnessVars, enrichmentsDoc, entry, query, aiAnswer, toolsLoaded>>

\* lines 469-542: the enrichments arrive and the AI path runs to its return,
\* or the fetch fails or a TypeError is thrown, inside the try
SmartEnrichResponds(q) ==
    /\ pc[q] = "ai_await_enrich"
    /\ \E loaded \in BOOLEAN :
          IF loaded /\ ~SmartThrows(aiAnswer[q].criteria, toolsLoaded[q])
          THEN /\ \E results \in SmartResults(aiAnswer[q].criteria, toolsLoaded[q],
                                              enrichmentsDoc) :
                     ret' = [ret EXCEPT ![q] = Resolved(results, "ai-powered")]
               /\ callReq' = [callReq EXCEPT ![q] = SmartRequirements(aiAnswer[q].criteria)]
               /\ pc' = [pc EXCEPT ![q] = "done"]
               /\ Settle(q, EnrichmentUrl)
               /\ UNCHANGED <<localRan, dataFailed>>
          ELSE /\ dataFailed' = [dataFailed EXCEPT ![q] = dataFailed[q] \/ ~loaded]
               /\ Fallback(q, EnrichmentUrl, IF loaded THEN "TypeError" ELSE "DataUnavailable")
               /\ UNCHANGED callReq
    /\ UNCHANGED <<harnessVars, catalogDoc, enrichmentsDoc, entry, query, aiAnswer,
                   toolsLoaded>>

\* matchToolsToQuery, lines 414-419: the catalog arrives, or its fetch fails
QueryCatalogResponds(q) ==
    /\ pc[q] = "q_await_catalog"
    /\ \E loaded \in BOOLEAN :
          IF loaded
          THEN /\ toolsLoaded' = [toolsLoaded EXCEPT ![q] = ToolsOf(catalogDoc)]
               /\ pc' = [pc EXCEPT ![q] = "q_await_enrich"]
               /\ SettleAndIssue(q, CatalogUrl, EnrichmentUrl)
               /\ UNCHANGED <<dataFailed, ret>>
          ELSE /\ dataFailed' = [dataFailed EXCEPT ![q] = TRUE]
               /\ pc' = [pc EXCEPT ![q] = "rejected"]
               /\ ret' = [ret EXCEPT ![q] = Rejected("DataUnavailable")]
               /\ Settle(q, CatalogUrl)
               /\ UNCHANGED toolsLoaded
    /\ UNCHANGED <<harnessVars, catalogDoc, enrichmentsDoc, entry, query, callReq, aiAnswer,
                   localRan>>

\* matchToolsToQuery, lines 419-433, and lines 548-552 when the caller is
\* the catch block: the enrichments arrive, or their fetch fails
QueryEnrichResponds(q) ==
    /\ pc[q] = "q_await_enrich"
    /\ \E loaded \in BOOLEAN :
          IF loaded
          THEN /\ \E results \in QueryResults(query[q], toolsLoaded[q], enrichmentsDoc) :
                     ret' = [ret EXCEPT ![q] =
                                Resolved(results,
                                         IF entry[q] = "matchToolsToQuerySmart"
                                         THEN "fallback" ELSE "none")]
               /\ callReq' = [callReq EXCEPT ![q] =
                                 buildUserRequirements(query[q], Undefined, Undefined,
                                                       Undefined)]
               /\ pc' = [pc EXCEPT ![q] = "done"]
               /\ UNCHANGED dataFailed
          ELSE /\ dataFailed' = [dataFailed EXCEPT ![q] = TRUE]
               /\ pc' = [pc EXCEPT ![q] = "rejected"]
               /\ ret' = [ret EXCEPT ![q] = Rejected("DataUnavailable")]
               /\ UNCHANGED callReq
    /\ Settle(q, EnrichmentUrl)
    /\ UNCHANGED <<harnessVars, catalogDoc, enrichmentsDoc, entry, query, aiAnswer,
                   toolsLoaded, localRan>>

Next ==
    \E q \in Procs :
        \/ CallUserNeeds(q)
        \/ CallQuery(q)
        \/ CallSmart(q)
        \/ InterpreterResponds(q)
        \/ SmartCatalogResponds(q)
        \/ SmartEnrichResponds(q)
        \/ QueryCatalogResponds(q)
        \/ QueryEnrichResponds(q)

Spec == Init /\ [][Next]_vars

--------------------------------------------------------------------------
(* Two concurrent calls of matchToolsToQuerySmart on the same files: both  *)
(* are issued before the first await of either settles, and their         *)
(* continuations interleave at the await points.                           *)

ConcCatalogDoc == [isArray |-> FALSE, tools |-> <<Cursor, Wix, Copilot>>]

\* the answers of the interpreter to the two calls: a rejected fetch, two
\* success payloads, and a payload without constraints
ConcAnswers ==
    {Answer(FALSE, FALSE, FALSE, FALSE, NoCriteria),
     Answer(TRUE, TRUE, TRUE, TRUE,
            Criteria(<<TagA>>, <<"Cursor">>, Undefined, Undefined, Undefined, "because", {})),
     Answer(TRUE, TRUE, TRUE, TRUE,
            Criteria(<<TagB, TagA>>, << >>, "no-code", "free", Undefined, "because", {})),
     Answer(TRUE, TRUE, TRUE, TRUE,
            Criteria(<<TagA>>, << >>, Undefined, Undefined, Undefined, "because",
                     {"constraints"}))}

InitConc ==
    /\ HarnessIdle
    /\ catalogDoc = ConcCatalogDoc
    /\ enrichmentsDoc = EnrichmentFile
    /\ pc = [q \in Procs |-> "await_ai"]
    /\ entry = [q \in Procs |-> "matchToolsToQuerySmart"]
    /\ query \in [Procs -> QueryTexts]
    /\ callReq = [q \in Procs |-> NoRequirement]
    /\ aiAnswer = [q \in Procs |-> NoAnswer]
    /\ toolsLoaded = [q \in Procs |-> << >>]
    /\ ret = [q \in Procs |-> Pending]
    /\ localRan = [q \in Procs |-> FALSE]
    /\ dataFailed = [q \in Procs |-> FALSE]
    /\ inflight = {<<q, SmartSearchUrl>> : q \in Procs}

\* the interpreter answers call q with one of ConcAnswers
ConcInterpreterResponds(q) ==
    /\ InterpreterResponds(q)
    /\ aiAnswer'[q] \in ConcAnswers

NextConc ==
    \E q \in Procs :
        \/ ConcInterpreterResponds(q)
        \/ SmartCatalogResponds(q)
        \/ SmartEnrichResponds(q)
        \/ QueryCatalogResponds(q)
        \/ QueryEnrichResponds(q)

SpecConc == InitConc /\ [][NextConc]_vars

--------------------------------------------------------------------------
(* Scorer harness specification *)

ScoreInit ==
    /\ sReq \in ScorerRequirements
    /\ sEnr \in ScorerEnrichments
    /\ sOut = NoOutput
    /\ AdapterIdle
    /\ CallsIdle

Score ==
    /\ ~sOut.called
    /\ sOut' = [called |-> TRUE] @@ calculateCompatibilityScore(sReq, Cursor, sEnr)
    /\ UNCHANGED <<sReq, sEnr, adapterVars, callVars>>

SpecScore == ScoreInit /\ [][Score]_vars

--------------------------------------------------------------------------
(* Adapter harness specification: one POST, answered by an interpreter     *)
(* that writes the text aText inside the fence aFence.                     *)

AdapterInit ==
    /\ aText \in Texts
    /\ aFence \in Fences
    /\ aResponse = NoResponse
    /\ ScorerIdle
    /\ CallsIdle

Post ==
    /\ ~aResponse.called
    /\ \E request \in Requests, service \in Services :
          aResponse' = POST(request, service, Wrap(aText, aFence))
    /\ UNCHANGED <<aText, aFence, scorerVars, callVars>>

SpecAdapter == AdapterInit /\ [][Post]_vars

--------------------------------------------------------------------------
(* Claims about the scorer, checked under SpecScore. *)

\* C1: for every requirement and every enrichment whose strengths lie in
\* 0..100, the returned score and the returned confidence both lie in 0..100.
C1_ScoreAndConfidenceInRange ==
    sOut.called =>
        /\ 0 <= sOut.score /\ sOut.score <= 100
        /\ 0 <= sOut.confidence /\ sOut.confidence <= 100

\* C1 witness: the scorer has returned for inputs whose raw sum is above
\* 100 (the clamp acted), and for these the confidence is the full 100.
C1_Witness ==
    /\ sOut.called
    /\ RawScore(sReq, sEnr) > 100
    /\ sOut.score = 100
    /\ sOut.confidence = 100

\* C2: when at least one requested tag is in the tool's map, the use-case
\* component is 0.6 x (sum of strength*w / sum of w) over the matched tags
\* (stated cross-multiplied, with the doubled sums), it is at most 60, and
\* the four components sum to at most 100 before the clamp.
C2_UseCaseComponentIsSixtyPercent ==
    (sOut.called /\ Len(sOut.matchedUseCases) > 0) =>
        LET m == UseCaseMatching(sReq, sEnr)
        IN /\ UseCaseComponent(sReq, sEnr) * 100 * m.totalWeight2 = 60 * m.useCaseScore2
           /\ UseCaseComponent(sReq, sEnr) <= 60
           /\ RawScore(sReq, sEnr) <= 100

\* C3: Scenario A: the only requested tag is matched with strength 95 and
\* type primary, and no coding-level, budget or experience constraint is
\* set; the returned score is 57 + 20 + 10 + 10 = 97.
C3_ScenarioA ==
    (/\ sOut.called
     /\ sReq = Requirement(ArrayUseCases(<<TagA>>), Undefined, Undefined, Undefined)
     /\ TagA \in DOMAIN sEnr.use_case_compatibility
     /\ sEnr.use_case_compatibility[TagA] = Compat(95, "primary"))
        => sOut.score = 97

\* the enrichment with the strength of one use case set to another value
Raised(enrichment, tag, strength) ==
    [enrichment EXCEPT !.use_case_compatibility[tag].strength = strength]

\* the strengths a matched strength is raised to
RaisedStrengths(strength) ==
    {s \in Strengths \cup {MathMin(100, strength + 1)} : s >= strength}

\* C16: monotonicity: for a fixed requirement and tool, raising the
\* strength of one matched use case, all else the same, lowers neither the
\* use-case component nor the returned score.
C16_Monotonicity ==
    sOut.called =>
        \A i \in 1..Len(sOut.matchedUseCases) :
            \A s \in RaisedStrengths(sOut.matchedUseCases[i].strength) :
                LET raised == Raised(sEnr, sOut.matchedUseCases[i].id, s)
                IN /\ UseCaseComponent(sReq, raised) >= UseCaseComponent(sReq, sEnr)
                   /\ calculateCompatibilityScore(sReq, Cursor, raised).score >= sOut.score

\* C16 witness: the scorer returned for a matched use case of strength 0,
\* and with that strength raised to 95 the returned score is strictly higher.
C16_Witness ==
    /\ sOut.called
    /\ \E i \in 1..Len(sOut.matchedUseCases) :
          /\ sOut.matchedUseCases[i].strength = 0
          /\ calculateCompatibilityScore(
                 sReq, Cursor, Raised(sEnr, sOut.matchedUseCases[i].id, 95)).score
                > sOut.score

\* the place of a coding level on the scale no-code, low-code, developer,
\* expert
ScalePlace(level) ==
    CASE level = "no-code" -> 1
      [] level = "low-code" -> 2
      [] level = "developer" -> 3
      [] level = "expert" -> 4

\* nothing matched: the returned score is the sum of the three constraint
\* components
NothingMatched == sOut.called /\ Len(sOut.matchedUseCases) = 0

\* the tags the requirement asks for
RequestedTags(userReqs) == userReqs.use_cases.items

C22_BudgetComponent ==
    (sOut.called /\ sReq.budget \in {Undefined, "any", "free"}) =>
        LET expected == IF sReq.budget = "free" /\ ~sEnr.pricing_tier.has_free_tier
                        THEN 0 ELSE 10
        IN /\ BudgetComponent(sReq, sEnr) = expected
           /\ NothingMatched =>
                 sOut.score = CodingComponent(sReq, sEnr) + expected
                                 + ExperienceComponent(sReq, sEnr)

\* C22 witness: the scorer returned for a 'free' preference and a tool
\* without a free tier, with nothing matched and no other constraint: 30.
C22_Witness ==
    /\ NothingMatched
    /\ sReq.budget = "free" /\ ~sEnr.pricing_tier.has_free_tier
    /\ sReq.coding_level = Undefined /\ sReq.experience_level = Undefined
    /\ sOut.score = 30

\* C23: the confidence is min(100, 30 x matched tags + (40 if a tag was
\* requested, else 20)): 20 with no requested tag, 40 with requested tags
\* that are all unmatched, 100 from two matched tags on.
C23_ConfidenceFormula ==
    sOut.called =>
        LET matched == Len(sOut.matchedUseCases)
            requested == Len(RequestedTags(sReq))
        IN /\ sOut.confidence
                 = MathMin(100, 30 * matched + (IF requested > 0 THEN 40 ELSE 20))
           /\ requested = 0 => sOut.confidence = 20
           /\ (requested > 0 /\ matched = 0) => sOut.confidence = 40
           /\ matched >= 2 => sOut.confidence = 100

\* C24: with zero requested tags the use-case component is 0 and the score
\* is the sum of the coding-level, budget and experience components, at most
\* 40; with no constraint it is exactly 40 and passes the threshold of 30.
C24_NoTagsLeansOnConstraints ==
    (sOut.called /\ Len(RequestedTags(sReq)) = 0) =>
        /\ UseCaseComponent(sReq, sEnr) = 0
        /\ sOut.score = CodingComponent(sReq, sEnr) + BudgetComponent(sReq, sEnr)
                           + ExperienceComponent(sReq, sEnr)
        /\ sOut.score <= 40
        /\ (/\ sReq.coding_level = Undefined
            /\ sReq.budget = Undefined
            /\ sReq.experience_level = Undefined)
              => (sOut.score = 40 /\ ReasonableCompatibility(sOut.score))

\* C24 witness: the scorer returned 40 for a requirement with no tag and no
\* constraint and a tool whose map is not empty.
C24_Witness ==
    /\ sOut.called
    /\ Len(RequestedTags(sReq)) = 0
    /\ sReq.coding_level = Undefined /\ sReq.budget = Undefined
    /\ sReq.experience_level = Undefined
    /\ DOMAIN sEnr.use_case_compatibility # {}
    /\ sOut.score = 40

\* the list with x put in at place k
InsertAt(list, k, x) == SubSeq(list, 1, k - 1) \o <<x>> \o SubSeq(list, k, Len(list))

\* C25: a requested tag that the tool's map does not contain is ignored:
\* with such a tag added to the requirement, at any place, the score and the
\* list of matched use cases are what they are without it.
C25_AbsentTagsIgnored ==
    sOut.called =>
        \A t \in Tags \ (DOMAIN sEnr.use_case_compatibility \cup SeqRange(RequestedTags(sReq))) :
            \A k \in 1..(Len(RequestedTags(sReq)) + 1) :
                LET more == [sReq EXCEPT !.use_cases.items = InsertAt(@, k, t)]
                    out == calculateCompatibilityScore(more, Cursor, sEnr)
                IN /\ out.score = sOut.score
                   /\ out.matchedUseCases = sOut.matchedUseCases

\* C25 witness: the scorer returned one matched use case for a requirement
\* of two tags, the other of which is absent from the tool's map.
C25_Witness ==
    /\ sOut.called
    /\ sReq.use_cases.isArray
    /\ Len(RequestedTags(sReq)) = 2
    /\ Len(sOut.matchedUseCases) = 1
    /\ \E t \in SeqRange(RequestedTags(sReq)) : t \notin DOMAIN sEnr.use_case_compatibility

\* C30: for every budget value that reaches the scorer (free, any, the
\* interpreter's starter, or none), the budget component is 0 only when the
\* preference is 'free' and the tool has no free tier, and 10 otherwise.
C30_BudgetValuesOfInterpreter ==
    sOut.called =>
        LET expected == IF sReq.budget = "free" /\ ~sEnr.pricing_tier.has_free_tier
                        THEN 0 ELSE 10
        IN /\ (BudgetComponent(sReq, sEnr) = 0)
                 <=> (sReq.budget = "free" /\ ~sEnr.pricing_tier.has_free_tier)
           /\ BudgetComponent(sReq, sEnr) \in {0, 10}
           /\ NothingMatched =>
                 sOut.score = CodingComponent(sReq, sEnr) + expected
                                 + ExperienceComponent(sReq, sEnr)

--------------------------------------------------------------------------
(* Claims about the calls, checked under Spec. *)

SmartCall(q) == entry[q] = "matchToolsToQuerySmart"
Terminated(q) == pc[q] \in {"done", "rejected"}
Returned(q) == ret[q].status = "resolved"

\* the compatibility score of an element of a returned list
ScoreOf(r) == IF "matchScore" \in DOMAIN r THEN r.matchScore ELSE r.compatibilityScore

ResultNames(q) == {ret[q].results[i].tool.name : i \in 1..Len(ret[q].results)}

\* the interpreter call failed, in one of the ways C6 lists
InterpreterFailed(answer) ==
    /\ answer.arrived
    /\ (~answer.fetched \/ ~answer.bodyIsJson \/ ~answer.ok \/ ~answer.success)

\* the score the AI path gives a tool
SmartScoreOf(criteria, tool) ==
    calculateCompatibilityScore(SmartRequirements(criteria), tool,
                                enrichmentsDoc[tool.name]).score

\* C4: threshold law: in every list returned by matchToolsToUserNeeds,
\* matchToolsToQuery and matchToolsToQuerySmart (either mode), every result
\* has a compatibility score of at least 30.
C4_ThresholdLaw ==
    \A q \in Procs :
        Returned(q) =>
            \A i \in 1..Len(ret[q].results) : ScoreOf(ret[q].results[i]) >= 30

\* C4 witness: an 'ai-powered' list was returned that is not empty, and a
\* loaded tool that passed every filter but scored below 30 is not in it.
C4_Witness ==
    \E q \in Procs :
        /\ Returned(q) /\ ret[q].mode = "ai-powered"
        /\ Len(ret[q].results) > 0
        /\ \E tool \in SeqRange(toolsLoaded[q]) :
              /\ NotExcluded(aiAnswer[q].criteria, tool)
              /\ CodingLevelAllows(aiAnswer[q].criteria, tool, enrichmentsDoc)
              /\ HasMatchingUseCase(aiAnswer[q].criteria, tool, enrichmentsDoc)
              /\ SmartScoreOf(aiAnswer[q].criteria, tool) < 30
              /\ tool.name \notin ResultNames(q)

\* C5: cap law: every returned list, of the local path and of the AI path,
\* has at most 10 elements.
C5_CapLaw ==
    \A q \in Procs : Returned(q) => Len(ret[q].results) <= 10

\* C5 witness: more than 10 loaded tools pass the filters and the threshold
\* of the AI path, and the returned list has 10 elements.
C5_Witness ==
    \E q \in Procs :
        /\ Returned(q) /\ ret[q].mode = "ai-powered"
        /\ Len(ret[q].results) = 10
        /\ Cardinality({i \in 1..Len(toolsLoaded[q]) :
              /\ NotExcluded(aiAnswer[q].criteria, toolsLoaded[q][i])
              /\ CodingLevelAllows(aiAnswer[q].criteria, toolsLoaded[q][i], enrichmentsDoc)
              /\ HasMatchingUseCase(aiAnswer[q].criteria, toolsLoaded[q][i], enrichmentsDoc)
              /\ SmartScoreOf(aiAnswer[q].criteria, toolsLoaded[q][i]) >= 30}) > 10

\* C6: fallback totality: when the interpreter call fails (fetch rejects,
\* body is not JSON, non-2xx status, success = false), the interpreter error
\* is never what the call rejects with, and if no catalog or enrichment fetch
\* fails the call resolves with a result list and mode 'fallback'.
C6_FallbackTotality ==
    \A q \in Procs :
        (SmartCall(q) /\ InterpreterFailed(aiAnswer[q])) =>
            /\ ret[q].error # "AI search failed"
            /\ (Terminated(q) /\ ~dataFailed[q]) =>
                  (Returned(q) /\ ret[q].mode = "fallback")

\* C6 witness: the interpreter call failed and the call has returned a
\* list that is not empty, with mode 'fallback'.
C6_Witness ==
    \E q \in Procs :
        /\ SmartCall(q) /\ InterpreterFailed(aiAnswer[q])
        /\ Returned(q) /\ ret[q].mode = "fallback"
        /\ Len(ret[q].results) > 0

\* C7: the coordinator goes ATTEMPT_AI -> AI_SUCCEEDED, or ATTEMPT_AI ->
\* AI_FAILED -> LOCAL_FALLBACK: when the data loads every run ends with
\* mode 'ai-powered' or 'fallback'; the local matcher runs only after the
\* interpreter call has failed; and once the interpreter has answered with a
\* success payload the result is the AI path's, with mode 'ai-powered', and
\* the local matcher is not run.
C7_CoordinatorStateMachine ==
    \A q \in Procs :
        SmartCall(q) =>
            /\ (Terminated(q) /\ ~dataFailed[q]) =>
                  (Returned(q) /\ ret[q].mode \in {"ai-powered", "fallback"})
            /\ localRan[q] => InterpreterFailed(aiAnswer[q])
            /\ (aiAnswer[q].arrived /\ ~InterpreterFailed(aiAnswer[q])) =>
                  /\ ~localRan[q]
                  /\ Returned(q) => ret[q].mode = "ai-powered"

\* C8: DataUnavailable is not recovered: when a fetch of the catalog or of
\* the enrichment file has failed during a matchToolsToQuerySmart call, on
\* the AI path or on the fallback path, the call rejects: it returns no list.
C8_DataUnavailableRejects ==
    \A q \in Procs :
        (SmartCall(q) /\ dataFailed[q] /\ Terminated(q)) => ret[q].status = "rejected"

\* C9: tie-break law: in every list returned by matchToolsToUserNeeds, of
\* two results whose compatibility scores differ by at most 5 the one with
\* the strictly higher overall score comes first.
C9_TieBreakLaw ==
    \A q \in Procs :
        (entry[q] = "matchToolsToUserNeeds" /\ Returned(q)) =>
            \A i, j \in 1..Len(ret[q].results) :
                (/\ MathAbs(ret[q].results[i].compatibilityScore
                            - ret[q].results[j].compatibilityScore) <= 5
                 /\ ret[q].results[i].overallScore > ret[q].results[j].overallScore)
                    => i < j

\* C10: Scenario D: in a list returned with mode 'ai-powered', no result
\* has a tool name that the interpreter's criteria list in excludeTools.
C10_ExcludedToolsAbsent ==
    \A q \in Procs :
        (Returned(q) /\ ret[q].mode = "ai-powered") =>
            ResultNames(q) \cap SeqRange(aiAnswer[q].criteria.excludeTools) = {}

\* C10 witness: an 'ai-powered' list was returned that is not empty, and an
\* excluded tool is loaded that passes the other filters and the threshold.
C10_Witness ==
    \E q \in Procs :
        /\ Returned(q) /\ ret[q].mode = "ai-powered"
        /\ Len(ret[q].results) > 0
        /\ \E tool \in SeqRange(toolsLoaded[q]) :
              /\ tool.name \in SeqRange(aiAnswer[q].criteria.excludeTools)
              /\ CodingLevelAllows(aiAnswer[q].criteria, tool, enrichmentsDoc)
              /\ HasMatchingUseCase(aiAnswer[q].criteria, tool, enrichmentsDoc)
              /\ SmartScoreOf(aiAnswer[q].criteria, tool) >= 30

\* the coding level of a tool's enrichment record
LevelOf(name) == enrichmentsDoc[name].technical_profile.coding_level

\* C11: use-case intersection: in every list returned with mode
\* 'ai-powered', each tool has an enrichment entry of strength at least 30
\* (on the 0-100 scale) for at least one of the interpreter's use cases.
C11_UseCaseIntersection ==
    \A q \in Procs :
        (Returned(q) /\ ret[q].mode = "ai-powered") =>
            \A n \in ResultNames(q) :
                \E useCase \in SeqRange(aiAnswer[q].criteria.useCases) :
                    /\ useCase \in DOMAIN enrichmentsDoc[n].use_case_compatibility
                    /\ enrichmentsDoc[n].use_case_compatibility[useCase].strength >= 30

LocalRequirements(criteria) ==
    Requirement(ArrayUseCases(criteria.useCases),
                criteria.constraints.codingLevel,
                criteria.constraints.budget,
                criteria.constraints.experienceLevel)

\* the call went through matchToolsToQuery: called directly, or by the
\* catch block
LocalCall(q) == entry[q] = "matchToolsToQuery" \/ (SmartCall(q) /\ ret[q].mode = "fallback")

\* C14: a query text shorter than 4 characters reaches the scorer with zero
\* requested tags: the Keyword Extractor returns the empty tag set for it,
\* whatever lexicon phrase it contains.
C14_ShortTextHasNoTags ==
    \A q \in Procs :
        (Returned(q) /\ LocalCall(q) /\ Len(query[q]) < 4) =>
            /\ parseUserInput(query[q]) = << >>
            /\ Len(IterationOf(callReq[q].use_cases)) = 0

\* C15: every match returned on either path refers to a tool that has an
\* enrichment record.
C15_ReturnedToolsAreEnriched ==
    \A q \in Procs :
        Returned(q) => \A n \in ResultNames(q) : n \in DOMAIN enrichmentsDoc

\* C15 witness: matchToolsToQuery loaded a catalog with a tool that has no
\* enrichment record, and returned a list that is not empty.
C15_Witness ==
    \E q \in Procs :
        /\ Returned(q) /\ LocalCall(q)
        /\ \E tool \in SeqRange(toolsLoaded[q]) : tool.name \notin DOMAIN enrichmentsDoc
        /\ Len(ret[q].results) > 0

\* C17: a catalog document that is a bare array of Tool records yields the
\* same tool list and the same results as the document {tools: [...]} with
\* the same records, on the local and on the AI path.
C17_BareArrayCatalog ==
    \A q \in Procs :
        /\ pc[q] \in {"ai_await_enrich", "q_await_enrich"} =>
              toolsLoaded[q] = catalogDoc.tools
        /\ (Returned(q) /\ LocalCall(q)) =>
              ret[q].results \in QueryResults(query[q], catalogDoc.tools, enrichmentsDoc)
        /\ (Returned(q) /\ ret[q].mode = "ai-powered") =>
              ret[q].results \in SmartResults(aiAnswer[q].criteria, catalogDoc.tools,
                                              enrichmentsDoc)

\* C18: the comparator of matchToolsToUserNeeds is a total, transitive
\* order over the candidates: of two candidates one ranks before the other or
\* they tie, both ways round alike; a before b and b before c give a before
\* c; and when it distinguishes every two candidates, the returned list is
\* the same for every order in which the catalog lists the tools.
C18_ComparatorIsOrder ==
    \A q \in Procs :
        (entry[q] = "matchToolsToUserNeeds" /\ Returned(q)) =>
            LET S == SeqRange(ret[q].results)
            IN /\ \A a, b \in S : (compare(a, b) < 0) <=> (compare(b, a) > 0)
               /\ \A a, b, c \in S :
                     (compare(a, b) < 0 /\ compare(b, c) < 0) => (compare(a, c) < 0)
               /\ (\A a, b \in S : a # b => compare(a, b) # 0) =>
                     \A other \in Catalogs :
                         SeqRange(other) = SeqRange(ToolsOf(catalogDoc)) =>
                             matchToolsToUserNeeds(callReq[q], other, enrichmentsDoc)
                                = {ret[q].results}

\* C19: on the AI path the requirement handed to the scorer carries the
\* interpreter's useCases as its requested tags, every returned tool has the
\* score, the matched use cases and the confidence that the scorer gives it
\* for the local path's requirement with the same tags and constraints, and
\* every returned tool has at least one matched use case.
C19_SmartRequirementCarriesTags ==
    \A q \in Procs :
        (Returned(q) /\ ret[q].mode = "ai-powered") =>
            /\ callReq[q] = LocalRequirements(aiAnswer[q].criteria)
            /\ \A i \in 1..Len(ret[q].results) :
                  LET tool == ret[q].results[i].tool
                      local == calculateCompatibilityScore(
                                   LocalRequirements(aiAnswer[q].criteria), tool,
                                   enrichmentsDoc[tool.name])
                      smart == calculateCompatibilityScore(callReq[q], tool,
                                                           enrichmentsDoc[tool.name])
                  IN /\ ret[q].results[i].matchScore = local.score
                     /\ smart.matchedUseCases = local.matchedUseCases
                     /\ smart.confidence = local.confidence
                     /\ Len(smart.matchedUseCases) >= 1

\* the network requests of call q that are in flight
InFlightOf(q) == {u \in {SmartSearchUrl, CatalogUrl, EnrichmentUrl} : <<q, u>> \in inflight}

\* C26: within one query the network operations are sequential: at most
\* one request of the call is in flight at a time, the catalog fetch of
\* matchToolsToQuerySmart is in flight only after the interpreter call has
\* settled, and the enrichment fetch only after the catalog fetch has
\* resolved.
C26_SequentialNetwork ==
    \A q \in Procs :
        /\ Cardinality(InFlightOf(q)) <= 1
        /\ (SmartCall(q) /\ CatalogUrl \in InFlightOf(q)) => aiAnswer[q].arrived
        /\ EnrichmentUrl \in InFlightOf(q) =>
              /\ pc[q] \in {"ai_await_enrich", "q_await_enrich"}
              /\ SmartCall(q) => aiAnswer[q].arrived

\* C26 witness: the enrichment fetch of the AI path is in flight, after a
\* success answer of the interpreter and a loaded catalog that is not empty.
C26_Witness ==
    \E q \in Procs :
        /\ SmartCall(q)
        /\ InFlightOf(q) = {EnrichmentUrl}
        /\ pc[q] = "ai_await_enrich"
        /\ InterpreterSucceeded(aiAnswer[q])
        /\ Len(toolsLoaded[q]) > 0

\* C27: queries are isolated.  The catalog and the enrichment map are never
\* modified, and under every interleaving of two concurrent
\* matchToolsToQuerySmart calls each call that returns has the mode and one
\* of the result lists that the same call has when run alone on the same
\* files, with its own query and its own interpreter answer.
C27_QueriesIsolated ==
    /\ catalogDoc = ConcCatalogDoc
    /\ enrichmentsDoc = EnrichmentFile
    /\ \A q \in Procs :
          Returned(q) =>
              IF /\ InterpreterSucceeded(aiAnswer[q])
                 /\ ~SmartThrows(aiAnswer[q].criteria, ToolsOf(ConcCatalogDoc))
                 /\ ~dataFailed[q]
              THEN /\ ret[q].mode = "ai-powered"
                   /\ ret[q].results \in SmartResults(aiAnswer[q].criteria,
                                                      ToolsOf(ConcCatalogDoc), EnrichmentFile)
              ELSE /\ ret[q].mode = "fallback"
                   /\ ret[q].results \in QueryResults(query[q], ToolsOf(ConcCatalogDoc),
                                                      EnrichmentFile)

\* C27 witness: two calls issued together have both returned, with
\* different interpreter answers, one on the AI path and one on the fallback
\* path, and with lists of different tools.
C27_Witness ==
    /\ Returned(1) /\ Returned(2)
    /\ inflight = {}
    /\ aiAnswer[1] # aiAnswer[2]
    /\ ret[1].mode = "ai-powered" /\ ret[2].mode = "fallback"
    /\ Len(ret[1].results) > 0 /\ Len(ret[2].results) > 0
    /\ ResultNames(1) # ResultNames(2)

\* the reasons the generator gives for a result of the local path
FiredReasons(q, r) ==
    generateReasoning(callReq[q], r.tool, enrichmentsDoc[r.tool.name],
                      calculateCompatibilityScore(callReq[q], r.tool,
                                                  enrichmentsDoc[r.tool.name]).matchedUseCases)

\* C28: each matchReasons returned by matchToolsToQuery is the flat list of
\* the strings the reasoning generator produced for the match: it has one
\* element per rule that fired, and is the empty list when none fired.
C28_MatchReasonsFlat ==
    \A q \in Procs :
        (Returned(q) /\ LocalCall(q)) =>
            \A i \in 1..Len(ret[q].results) :
                /\ Len(ret[q].results[i].matchReasons)
                      = Len(FiredReasons(q, ret[q].results[i]))
                /\ Len(FiredReasons(q, ret[q].results[i])) = 0 =>
                      ret[q].results[i].matchReasons = << >>

\* the rules of the reasoning generator, in their order
RuleOrder ==
    <<"Excellent for", "differentiator", "Perfect match for", "Has a free tier available">>

--------------------------------------------------------------------------
(* Claims about the interpreter adapter, checked under SpecAdapter. *)

\* the interpreter answered the request with a text block
Answered == aResponse.called /\ aResponse.request = "query" /\ aResponse.service = "text"

\* C13: Scenario C: for every text, the response to the text inside a
\* leading fence (three backticks, bare or tagged json) and a trailing fence carries the criteria
\* that JSON.parse gives for the text without the fence: the same value with
\* success, or a failure when the text is no JSON.
C13_FenceStripping ==
    (Answered /\ aFence # NoFence) =>
        LET unfenced == JSONParse(aText)
        IN /\ aResponse.success = unfenced.ok
           /\ aResponse.criteria = unfenced

\* C13 witness: a text inside a json-tagged fence on lines of its own was
\* answered with success and the object the text denotes.
C13_Witness ==
    /\ Answered
    /\ aFence.open = BackticksJson /\ aFence.sep = <<"\n">>
    /\ aResponse.success
    /\ aResponse.criteria.kind = "object"
    /\ aResponse.criteria.fields = ExpectedFields

\* C20: the adapter answers success = true (status 200, mode 'ai-powered')
\* only when the text, after fence stripping, is a JSON object with the
\* expected fields; every other text is answered with success = false and a
\* status that is not 2xx.
C20_ShapeValidated ==
    Answered =>
        LET shaped == /\ aResponse.criteria.kind = "object"
                      /\ ExpectedFields \subseteq aResponse.criteria.fields
        IN /\ aResponse.success => shaped
           /\ ~JSONParse(StripFences(Wrap(aText, aFence))).ok =>
                 (~aResponse.success /\ aResponse.status >= 300)

====
